---- MODULE Spec2Model ----
(***************************************************************************)
(* Incident RAG backend: the embedding pipeline (text_embedding.py), the   *)
(* retriever (retriever.py) and the query API (api.py), with the vector    *)
(* store directory they share on disk.                                     *)
(***************************************************************************)
EXTENDS Integers, Sequences, FiniteSets, TLC

(***************************************************************************)
(* Bounds of the model.                                                    *)
(***************************************************************************)
\* request slots of the API server / caller threads of a retriever instance
MaxRequests == 2

\* records of a corpus the retrieval is checked on
MaxRecords == 3

(***************************************************************************)
(* Optional values: Python's None is the empty tuple, a set value <<v>>.   *)
(***************************************************************************)
None == <<>>

Some(v) == <<v>>

IsNone(o) == o = <<>>

Val(o) == o[1]

(***************************************************************************)
(* Records of processed_incidents.json.  A record is a function from the   *)
(* fields it has to string values; NoneValue is a JSON null.               *)
(***************************************************************************)
NoneValue == "<None>"

Str(v) == IF v = NoneValue THEN "None" ELSE v

Truthy(v) == v # NoneValue /\ v # ""

\* the fields create_chunks renders, in its order, with the test it applies:
\*   "default": record.get(field, default)      "present": field in record
\*   "truthy":  field in record and record[f]   "notnone": ... is not None
FieldTable ==
    << [field |-> "sl_no", label |-> "Incident ID", kind |-> "index"],
       [field |-> "incident_type", label |-> "Type", kind |-> "default", default |-> "Unknown"],
       [field |-> "location", label |-> "Location", kind |-> "default", default |-> "Unknown location"],
       [field |-> "taluk", label |-> "Taluk", kind |-> "default", default |-> "Unknown"],
       [field |-> "received_date_time", label |-> "Received Date/Time", kind |-> "present"],
       [field |-> "incident_reported_at", label |-> "Incident Reported At", kind |-> "present"],
       [field |-> "action_taken_by", label |-> "Action Taken By", kind |-> "truthy"],
       [field |-> "action_date_time", label |-> "Action Date/Time", kind |-> "truthy"],
       [field |-> "action_remarks", label |-> "Action Remarks", kind |-> "truthy"],
       [field |-> "time_taken_to_take_action", label |-> "Time Taken to Take Action", kind |-> "truthy"],
       [field |-> "closed_by_officer", label |-> "Closed By", kind |-> "truthy"],
       [field |-> "closed_at", label |-> "Closed At", kind |-> "truthy"],
       [field |-> "closed_remarks", label |-> "Closed Remarks", kind |-> "truthy"],
       [field |-> "time_taken_to_close", label |-> "Time Taken to Close", kind |-> "truthy"],
       [field |-> "info_source", label |-> "Information Source", kind |-> "truthy"],
       [field |-> "info_phone", label |-> "Information Phone", kind |-> "truthy"],
       [field |-> "action_time_hours", label |-> "Action Time (hours)", kind |-> "notnone"],
       [field |-> "resolution_time_hours", label |-> "Resolution Time (hours)", kind |-> "notnone"] >>

\* the lines one table entry adds to the text of record number i (0-based)
RenderField(e, i, record) ==
    LET has == e.field \in DOMAIN record
        line(v) == << e.label \o ": " \o Str(v) >>
    IN  CASE e.kind = "index"   -> line(IF has THEN record[e.field] ELSE ToString(i))
          [] e.kind = "default" -> line(IF has THEN record[e.field] ELSE e.default)
          [] e.kind = "present" -> IF has THEN line(record[e.field]) ELSE <<>>
          [] e.kind = "truthy"  -> IF has /\ Truthy(record[e.field])
                                   THEN line(record[e.field]) ELSE <<>>
          [] e.kind = "notnone" -> IF has /\ record[e.field] # NoneValue
                                   THEN line(record[e.field]) ELSE <<>>

RECURSIVE RenderFrom(_, _, _)
RenderFrom(n, i, record) ==
    IF n > Len(FieldTable) THEN <<>>
    ELSE RenderField(FieldTable[n], i, record) \o RenderFrom(n + 1, i, record)

RECURSIVE TextOf(_)
\* the lines as one string, each line ended by a newline
TextOf(lines) ==
    IF lines = <<>> THEN "" ELSE Head(lines) \o "\n" \o TextOf(Tail(lines))

\* the text of a record (lines 62-103)
RenderRecord(i, record) == TextOf(RenderFrom(1, i, record))

(***************************************************************************)
(* RecursiveCharacterTextSplitter(chunk_size, chunk_overlap,               *)
(* length_function = len), with the library's defaults: the separators     *)
(* "\n\n", "\n", " ", "", each kept at the start of the split it precedes,  *)
(* and chunks stripped of surrounding whitespace.                          *)
(***************************************************************************)
ChunkSize == 1000

ChunkOverlap == 200

Separators == << "\n\n", "\n", " ", "" >>

Whitespace == {" ", "\n", "\t", "\r"}

\* TextSplitter.__init__ raises ValueError when chunk_overlap > chunk_size
SplitterConfigOk(size, overlap) == overlap <= size

CharAt(s, i) == SubSeq(s, i, i)

\* the value of a one-element set.  An operator below takes its arguments
\* through such a set, x \in {argument}: the argument is evaluated once, where
\* TLC would evaluate the expression again at every use of the parameter.
The(S) == CHOOSE x \in S : TRUE

\* the position of the first occurrence of sep in s at or after i, 0 if none
Find(s, sep, i) ==
    The({ LET found == {j \in i..(Len(t) - Len(sep) + 1) :
                           SubSeq(t, j, j + Len(sep) - 1) = sep}
          IN  IF found = {} THEN 0 ELSE CHOOSE j \in found : \A h \in found : j <= h
          : t \in {s} })

RECURSIVE SplitAfter(_, _)
\* the splits of t, the text after an occurrence of sep, each led by sep
SplitAfter(t, sep) ==
    The({ IF p = 0 THEN << sep \o x >>
          ELSE << sep \o SubSeq(x, 1, p - 1) >>
                   \o SplitAfter(SubSeq(x, p + Len(sep), Len(x)), sep)
          : <<x, p>> \in {<<t, Find(t, sep, 1)>>} })

\* _split_text_with_regex(text, separator, keep_separator = True): the text
\* cut at the separator, or into characters, without the empty splits
SplitWithRegex(text, sep) ==
    The({ IF sep = "" THEN [i \in 1..Len(x) |-> CharAt(x, i)]
          ELSE LET first(t) == IF t = "" THEN <<>> ELSE <<t>>
               IN  IF p = 0 THEN first(x)
                   ELSE first(SubSeq(x, 1, p - 1))
                            \o SplitAfter(SubSeq(x, p + Len(sep), Len(x)), sep)
          : <<x, p>> \in {<<text, IF sep = "" THEN 0 ELSE Find(text, sep, 1)>>} })

\* str.strip(): the text from its first to its last character that is not
\* whitespace
Strip(s) ==
    The({ LET inked == {j \in 1..Len(t) : CharAt(t, j) \notin Whitespace}
          IN  IF inked = {} THEN ""
              ELSE SubSeq(t, CHOOSE j \in inked : \A h \in inked : j <= h,
                             CHOOSE j \in inked : \A h \in inked : j >= h)
          : t \in {s} })

RECURSIVE Joined(_)
\* "".join(docs)
Joined(docs) == IF docs = <<>> THEN "" ELSE Head(docs) \o Joined(Tail(docs))

RECURSIVE TextLen(_)
\* the total length of the splits of the current document
TextLen(docs) == IF docs = <<>> THEN 0 ELSE Len(Head(docs)) + TextLen(Tail(docs))

\* _join_docs: the stripped document, or none when nothing is left of it
JoinDocs(docs) ==
    The({ IF text = "" THEN <<>> ELSE <<text>> : text \in {Strip(Joined(docs))} })

RECURSIVE DropOverlap(_, _, _, _)
\* the splits kept for the next document once `cur` is emitted and a split of
\* length len comes next
DropOverlap(cur, len, size, overlap) ==
    IF TextLen(cur) > overlap \/ (TextLen(cur) + len > size /\ TextLen(cur) > 0)
    THEN DropOverlap(Tail(cur), len, size, overlap)
    ELSE cur

RECURSIVE MergeSplits(_, _, _, _)
\* _merge_splits(splits, ""), cur the current document
MergeSplits(splits, cur, size, overlap) ==
    IF splits = <<>> THEN JoinDocs(cur)
    ELSE LET d == Head(splits)
         IN  IF TextLen(cur) + Len(d) > size /\ cur # <<>>
             THEN JoinDocs(cur)
                      \o MergeSplits(Tail(splits),
                                     Append(DropOverlap(cur, Len(d), size, overlap), d),
                                     size, overlap)
             ELSE MergeSplits(Tail(splits), Append(cur, d), size, overlap)

RECURSIVE PickSeparator(_, _)
\* the first of the separators n, n+1, ... that is "" or occurs in the text
PickSeparator(text, n) ==
    IF n >= Len(Separators) \/ Separators[n] = "" \/ Find(text, Separators[n], 1) # 0
    THEN n
    ELSE PickSeparator(text, n + 1)

RECURSIVE SplitText(_, _, _, _)
RECURSIVE SplitPieces(_, _, _, _, _)
\* _split_text(text, separators[n:])
SplitText(text, n, size, overlap) ==
    The({ SplitPieces(splits, <<>>, m + 1, size, overlap)
          : <<splits, m>> \in
                { <<SplitWithRegex(t, Separators[PickSeparator(t, n)]), PickSeparator(t, n)>>
                  : t \in {text} } })

\* the loop of _split_text over the splits: short splits are collected in
\* `good` and merged, a long one is split on the separators from `next` on
SplitPieces(splits, good, next, size, overlap) ==
    LET merged == IF good = <<>> THEN <<>> ELSE MergeSplits(good, <<>>, size, overlap)
    IN  IF splits = <<>> THEN merged
        ELSE LET s == Head(splits)
             IN  IF Len(s) < size
                 THEN SplitPieces(Tail(splits), Append(good, s), next, size, overlap)
                 ELSE merged
                          \o (IF next > Len(Separators) THEN <<s>>
                              ELSE SplitText(s, next, size, overlap))
                          \o SplitPieces(Tail(splits), <<>>, next, size, overlap)

\* create_documents([text], [metadata]): one document per chunk of the text
CreateDocuments(text, metadata, size, overlap) ==
    The({ [j \in 1..Len(pieces) |-> [text |-> pieces[j], metadata |-> metadata]]
          : pieces \in {SplitText(text, 1, size, overlap)} })

\* the splitter built without chunk_size: the library's default of 4000
RecordChunksDefaultSize(i, record, size, overlap) ==
    CreateDocuments(RenderRecord(i, record), [source |-> i, record |-> record], 4000, overlap)

\* the chunks of record number i (lines 106-113)
RecordChunks(i, record, size, overlap) ==
    CreateDocuments(RenderRecord(i, record), [source |-> i, record |-> record], size, overlap)

RECURSIVE ChunksFrom(_, _, _, _)
ChunksFrom(n, data, size, overlap) ==
    IF n > Len(data) THEN <<>>
    ELSE RecordChunks(n - 1, data[n], size, overlap) \o ChunksFrom(n + 1, data, size, overlap)

(***************************************************************************)
(* The embedding model all-MiniLM-L6-v2, an external capability: a fixed   *)
(* function from a text to a vector of two numbers.                        *)
(***************************************************************************)
EmbedText(text) == << Len(text) % 5, (Len(text) \div 5) % 4 >>

EmbedQuery(q) == EmbedText(q)

EmbedDocuments(texts) == [i \in 1..Len(texts) |-> EmbedText(texts[i])]

(***************************************************************************)
(* faiss.IndexFlatL2: an index is the sequence of its vectors, the vector  *)
(* with id i at position i + 1; search gives the k nearest ids by squared  *)
(* Euclidean distance, padded with -1 when fewer than k vectors exist.     *)
(***************************************************************************)
\* the index built as IndexFlatIP: the inner product, larger is nearer
NegatedInnerProduct(u, v) == 0 - (u[1] * v[1] + u[2] * v[2])

\* IndexFlatL2 (text_embedding.py, line 165): the squared Euclidean distance
Dist(u, v) == (u[1] - v[1]) * (u[1] - v[1]) + (u[2] - v[2]) * (u[2] - v[2])

\* id a comes before id b in the result for query vector q
Before(index, q, a, b) ==
    \/ Dist(index[a + 1], q) < Dist(index[b + 1], q)
    \/ Dist(index[a + 1], q) = Dist(index[b + 1], q) /\ a < b

RECURSIVE Nearest(_, _, _, _)
Nearest(index, q, k, left) ==
    IF k = 0 THEN <<>>
    ELSE IF left = {} THEN <<-1>> \o Nearest(index, q, k - 1, left)
    ELSE LET best == CHOOSE a \in left : \A b \in left \ {a} : Before(index, q, a, b)
         IN  <<best>> \o Nearest(index, q, k - 1, left \ {best})

IndexSearch(index, q, k) == Nearest(index, q, k, 0..(Len(index) - 1))

(***************************************************************************)
(* The data sets processed_incidents.json can hold (written by the         *)
(* preprocessing step, read by load_data).                                 *)
(***************************************************************************)
Flood ==
    [sl_no |-> "1", incident_type |-> "Flood", location |-> "Bejai",
     taluk |-> "Mangalore", action_remarks |-> "Drain cleared", closed_at |-> ""]

TreeFall ==
    [incident_type |-> "Tree Fall", location |-> "Kadri", received_date_time |-> NoneValue,
     action_time_hours |-> "2.5"]

Landslide ==
    [sl_no |-> "3", incident_type |-> "Landslide", taluk |-> "Bantwal",
     info_source |-> "Phone", resolution_time_hours |-> NoneValue]

DataSets == { <<Flood, TreeFall>>, <<Landslide, Flood, TreeFall>> }

\* the corpora of up to MaxRecords of these records, in any order and with
\* repeats (equal records make equal vectors)
Corpora ==
    UNION { [1..n -> {Flood, TreeFall, Landslide}] : n \in 1..MaxRecords }

\* the <<chunk_size, chunk_overlap>> a TextProcessor is created with: the
\* defaults, small sizes that split a record, an overlap equal to the size and
\* one above it
ChunkConfigs ==
    { <<ChunkSize, ChunkOverlap>>, <<60, 15>>, <<40, 10>>, <<20, 0>>, <<12, 4>>, <<8, 3>>,
      <<25, 25>>, <<25, 30>> }

\* the chunk list create_chunks makes of the data (lines 58-113); the lists
\* for the data sets under the default parameters are computed once
DefaultChunks == [data \in DataSets |-> ChunksFrom(1, data, ChunkSize, ChunkOverlap)]

Chunks(data, size, overlap) ==
    IF size = ChunkSize /\ overlap = ChunkOverlap /\ data \in DataSets
    THEN DefaultChunks[data]
    ELSE ChunksFrom(1, data, size, overlap)

(***************************************************************************)
(* Files of the vector store directory.                                    *)
(***************************************************************************)
MissingFile == [state |-> "missing", body |-> <<>>]

\* opened for writing (truncated) and not yet closed
PartialFile == [state |-> "partial", body |-> <<>>]

FileOf(body) == [state |-> "ok", body |-> body]

Readable(file) == file.state = "ok"

(***************************************************************************)
(* State.                                                                  *)
(***************************************************************************)
VARIABLES
    dataFile,    \* content of processed_incidents.json
    files,       \* the vector store: chunks.json, faiss_index.bin, embedding_metadata.json
    processor,   \* the TextProcessor of the embedding pipeline
    ppc,         \* position of the pipeline inside save_processed_data
    builds,      \* history: the <<chunks, index>> pairs one save_processed_data wrote
    retriever,   \* api.py's global retriever: None or the IncidentRetriever
    serving,     \* the startup event has run and requests are served
    loop,        \* the caller the event loop is running, or None
    failed,      \* history: a load_resources of the retriever has raised
    call         \* per caller: its position, its request, its locals, its response

vars == <<dataFile, files, processor, ppc, builds, retriever, serving, loop, failed, call>>

pipelineVars == <<dataFile, files, processor, ppc, builds>>

serverVars == <<retriever, serving, loop, failed, call>>

(***************************************************************************)
(* TextProcessor (text_embedding.py).                                      *)
(***************************************************************************)
\* TextProcessor.__init__(data_path, chunk_size, chunk_overlap)
TextProcessor(chunk_size, chunk_overlap) ==
    [chunk_size |-> chunk_size, chunk_overlap |-> chunk_overlap,
     data |-> None, chunks |-> <<>>, embeddings |-> None,
     embedding_model |-> FALSE, vector_store |-> None]

\* TextProcessor(data_path), with the default chunk_size and chunk_overlap
NewProcessor == TextProcessor(ChunkSize, ChunkOverlap)

\* the processor after load_data() read `file`
after_load_data(p, file) == [p EXCEPT !.data = Some(file)]

\* create_chunks raises in line 52, where the splitter refuses its parameters
create_chunks_raises(p) == ~SplitterConfigOk(p.chunk_size, p.chunk_overlap)

\* the processor after create_chunks(): the data is loaded first, and the
\* chunk list is replaced unless the splitter could not be built
after_create_chunks(p, file) ==
    LET q == IF IsNone(p.data) THEN after_load_data(p, file) ELSE p
    IN  IF create_chunks_raises(q) THEN q
        ELSE [q EXCEPT !.chunks = Chunks(Val(q.data), q.chunk_size, q.chunk_overlap)]

after_initialize_embedding_model(p) == [p EXCEPT !.embedding_model = TRUE]

\* generate_embeddings raises when the create_chunks it calls does
generate_embeddings_raises(p) == p.chunks = <<>> /\ create_chunks_raises(p)

after_generate_embeddings(p, file) ==
    LET q == IF p.chunks = <<>> THEN after_create_chunks(p, file) ELSE p
        r == IF ~q.embedding_model THEN after_initialize_embedding_model(q) ELSE q
        texts == [i \in 1..Len(r.chunks) |-> r.chunks[i].text]
    IN  IF generate_embeddings_raises(p) THEN q
        ELSE [r EXCEPT !.embeddings = Some(EmbedDocuments(texts))]

\* self.embeddings[0] raises IndexError on an empty list: no index is set then
after_create_faiss_index(p, file) ==
    LET q == IF IsNone(p.embeddings) THEN after_generate_embeddings(p, file) ELSE p
    IN  IF IsNone(q.embeddings) \/ Val(q.embeddings) = <<>> THEN q
        ELSE [q EXCEPT !.vector_store = Some(Val(q.embeddings))]

\* the preprocessing step rewrites processed_incidents.json
save_processed_json ==
    /\ \E d \in DataSets : dataFile' = d
    /\ dataFile' # dataFile
    /\ UNCHANGED <<files, processor, ppc, builds>>
    /\ UNCHANGED serverVars

load_data ==
    /\ ppc = "idle"
    /\ processor' = after_load_data(processor, dataFile)
    /\ UNCHANGED <<dataFile, files, ppc, builds>>
    /\ UNCHANGED serverVars

create_chunks ==
    /\ ppc = "idle"
    /\ processor' = after_create_chunks(processor, dataFile)
    /\ UNCHANGED <<dataFile, files, ppc, builds>>
    /\ UNCHANGED serverVars

initialize_embedding_model ==
    /\ ppc = "idle"
    /\ processor' = after_initialize_embedding_model(processor)
    /\ UNCHANGED <<dataFile, files, ppc, builds>>
    /\ UNCHANGED serverVars

generate_embeddings ==
    /\ ppc = "idle"
    /\ processor' = after_generate_embeddings(processor, dataFile)
    /\ UNCHANGED <<dataFile, files, ppc, builds>>
    /\ UNCHANGED serverVars

create_faiss_index ==
    /\ ppc = "idle"
    /\ processor' = after_create_faiss_index(processor, dataFile)
    /\ UNCHANGED <<dataFile, files, ppc, builds>>
    /\ UNCHANGED serverVars

\* the guard testing the chunks alone: self.chunks is a list from __init__ on
\* and never None
save_raises_on_chunks(p) == FALSE

\* lines 178-179: ValueError when self.chunks or self.vector_store is None;
\* self.chunks is a list from __init__ on (line 24)
save_raises(p) == IsNone(p.vector_store)

\* save_processed_data, lines 178-182: the guard, then the directory
save_processed_data ==
    /\ ppc = "idle"
    /\ ppc' = IF save_raises(processor) THEN "raised" ELSE "open_chunks"
    /\ UNCHANGED <<dataFile, files, processor, builds>>
    /\ UNCHANGED serverVars

\* line 186: open(chunks_path, 'w')
save_open_chunks ==
    /\ ppc = "open_chunks"
    /\ files' = [files EXCEPT !.chunks = PartialFile]
    /\ ppc' = "write_chunks"
    /\ UNCHANGED <<dataFile, processor, builds>>
    /\ UNCHANGED serverVars

\* line 187: json.dump(self.chunks, f), and the file is closed
save_write_chunks ==
    /\ ppc = "write_chunks"
    /\ files' = [files EXCEPT !.chunks = FileOf(processor.chunks)]
    /\ ppc' = "open_index"
    /\ UNCHANGED <<dataFile, processor, builds>>
    /\ UNCHANGED serverVars

\* line 192: faiss.write_index opens the file ...
save_open_index ==
    /\ ppc = "open_index"
    /\ files' = [files EXCEPT !.index = PartialFile]
    /\ ppc' = "write_index"
    /\ UNCHANGED <<dataFile, processor, builds>>
    /\ UNCHANGED serverVars

\* ... and writes the index
save_write_index ==
    /\ ppc = "write_index"
    /\ files' = [files EXCEPT !.index = FileOf(Val(processor.vector_store))]
    /\ builds' = builds \cup {<<processor.chunks, Val(processor.vector_store)>>}
    /\ ppc' = "write_meta"
    /\ UNCHANGED <<dataFile, processor>>
    /\ UNCHANGED serverVars

\* lines 196-206: embedding_metadata.json
EmbeddingMetadata(p) ==
    [embedding_model |-> "all-MiniLM-L6-v2",
     chunk_size |-> p.chunk_size,
     chunk_overlap |-> p.chunk_overlap,
     num_chunks |-> Len(p.chunks),
     embedding_dim |-> IF IsNone(p.embeddings) \/ Val(p.embeddings) = <<>>
                       THEN None ELSE Some(Len(Val(p.embeddings)[1]))]

save_write_meta ==
    /\ ppc = "write_meta"
    /\ files' = [files EXCEPT !.meta = FileOf(<<EmbeddingMetadata(processor)>>)]
    /\ ppc' = "saved"
    /\ UNCHANGED <<dataFile, processor, builds>>
    /\ UNCHANGED serverVars

\* save_processed_data returns
save_return ==
    /\ ppc = "saved"
    /\ ppc' = "idle"
    /\ UNCHANGED <<dataFile, files, processor, builds>>
    /\ UNCHANGED serverVars

\* the ValueError of the guard reaches the caller of save_processed_data
save_raised ==
    /\ ppc = "raised"
    /\ ppc' = "idle"
    /\ UNCHANGED <<dataFile, files, processor, builds>>
    /\ UNCHANGED serverVars

save_steps ==
    \/ save_open_chunks
    \/ save_write_chunks
    \/ save_open_index
    \/ save_write_index
    \/ save_write_meta
    \/ save_return

(***************************************************************************)
(* IncidentRetriever (retriever.py).                                       *)
(***************************************************************************)
\* the models a request can name (api.py, list_models)
Models == {"mistral", "llama2"}

\* the queries a request can carry: the empty string and a question
Queries == {"", "flood in Bejai"}

\* the values of num_chunks a request can carry (5 is the default)
KValues == {-1, 0, 1, 5}

\* IncidentRetriever.__init__
NewRetriever(model_name) ==
    [model_name |-> model_name, chunks |-> None, index |-> None,
     embedding_model |-> FALSE, llm |-> None]

\* Ollama(model = model_name): the generation capability for one model
Ollama(model_name) == [model |-> model_name]

Callers == 0..MaxRequests

\* caller 0 is the startup event, the others are request slots
Startup == 0

Requests == 1..MaxRequests

\* one call: the request (kind, query, k, model), the position (pc, ret), the
\* locals of process_query (ids, relevant, context, llm, answer), the response
\* (status, num_chunks_retrieved), and the history of the call: the retriever
\* as the request found it (before), the times it entered load_resources
\* (loads), whether it switched the model, the k it searched with, and
\* whether retrieve_relevant_chunks has returned (retrieved)
IdleCall ==
    [pc |-> "idle", kind |-> "", query |-> "", k |-> 0, model |-> "",
     ret |-> "", loads |-> 0, switched |-> FALSE, searched |-> None,
     ids |-> <<>>, relevant |-> <<>>, llm |-> None, answer |-> None, status |-> 0,
     before |-> None, retrieved |-> FALSE, context |-> "", num_chunks_retrieved |-> None]

Self == Val(retriever)

\* the caller's position moves to pc
Goto(c, pc) == call' = [call EXCEPT ![c].pc = pc]

\* an exception leaves the method the caller is in
Raise(c) == call' = [call EXCEPT ![c].pc = "raised"]

\* an exception leaves load_resources: a resource error of this instance
LoadRaise(c) == Raise(c) /\ failed' = TRUE

\* load_resources is entered by caller c, to continue at `ret` when it returns
EnterLoad(c, ret) ==
    call' = [call EXCEPT ![c].pc = "load_chunks", ![c].ret = ret,
                         ![c].loads = call[c].loads + 1]

\* lines 34-37: chunks.json is opened and parsed
load_chunks(c) ==
    /\ call[c].pc = "load_chunks"
    /\ IF Readable(files.chunks)
       THEN /\ retriever' = Some([Self EXCEPT !.chunks = Some(files.chunks.body)])
            /\ Goto(c, "load_index")
            /\ UNCHANGED failed
       ELSE /\ LoadRaise(c)
            /\ UNCHANGED retriever
    /\ UNCHANGED <<serving, loop>>
    /\ UNCHANGED pipelineVars

\* lines 40-42: faiss.read_index
load_index(c) ==
    /\ call[c].pc = "load_index"
    /\ IF Readable(files.index)
       THEN /\ retriever' = Some([Self EXCEPT !.index = Some(files.index.body)])
            /\ Goto(c, "load_embedding")
            /\ UNCHANGED failed
       ELSE /\ LoadRaise(c)
            /\ UNCHANGED retriever
    /\ UNCHANGED <<serving, loop>>
    /\ UNCHANGED pipelineVars

\* lines 45-51: HuggingFaceEmbeddings loads the model, or fails to
load_embedding(c) ==
    /\ call[c].pc = "load_embedding"
    /\ \/ /\ retriever' = Some([Self EXCEPT !.embedding_model = TRUE])
          /\ Goto(c, "load_llm")
          /\ UNCHANGED failed
       \/ /\ LoadRaise(c)
          /\ UNCHANGED retriever
    /\ UNCHANGED <<serving, loop>>
    /\ UNCHANGED pipelineVars

\* lines 54-56: Ollama(model = self.model_name); load_resources returns
load_llm(c) ==
    /\ call[c].pc = "load_llm"
    /\ retriever' = Some([Self EXCEPT !.llm = Some(Ollama(Self.model_name))])
    /\ Goto(c, call[c].ret)
    /\ UNCHANGED <<serving, loop, failed>>
    /\ UNCHANGED pipelineVars

load_resources(c) ==
    \/ load_chunks(c)
    \/ load_index(c)
    \/ load_embedding(c)
    \/ load_llm(c)

\* lines 69-70: retrieve_relevant_chunks checks the three fields it uses
retrieve_relevant_chunks(c) ==
    /\ call[c].pc = "retrieve"
    /\ IF IsNone(Self.index) \/ IsNone(Self.chunks) \/ ~Self.embedding_model
       THEN EnterLoad(c, "search")
       ELSE Goto(c, "search")
    /\ UNCHANGED <<retriever, serving, loop, failed>>
    /\ UNCHANGED pipelineVars

\* what index.search does with k <= 0 is the library's: it raises (an
\* assertion, or a negative array dimension), or for k = 0 gives no result
SearchOutcomes(index, q, k) ==
    IF k >= 1 THEN {Some(IndexSearch(index, q, k))}
    ELSE IF k = 0 THEN {None, Some(<<>>)}
    ELSE {None}

Min(a, b) == IF a < b THEN a ELSE b

\* the k handed to index.search without the min of line 78
RequestedK(k, chunks) == k

\* line 78: k = min(k, len(self.chunks))
ClampK(k, chunks) == Min(k, Len(chunks))

\* lines 73-79: the query embedding and index.search with k = min(k, len(chunks))
search(c) ==
    /\ call[c].pc = "search"
    /\ LET k == ClampK(call[c].k, Val(Self.chunks))
       IN  \E out \in SearchOutcomes(Val(Self.index), EmbedQuery(call[c].query), k) :
              call' = [call EXCEPT ![c].searched = Some(k),
                                   ![c].ids = IF IsNone(out) THEN <<>> ELSE Val(out),
                                   ![c].pc = IF IsNone(out) THEN "raised" ELSE "lookup"]
    /\ UNCHANGED <<retriever, serving, loop, failed>>
    /\ UNCHANGED pipelineVars

\* self.chunks[idx]: a negative idx counts from the end, one out of range raises
Subscript(list, idx) ==
    IF idx >= 0 /\ idx < Len(list) THEN Some(list[idx + 1])
    ELSE IF idx < 0 /\ -idx <= Len(list) THEN Some(list[Len(list) + idx + 1])
    ELSE None

RECURSIVE Ascending(_)
\* the ids in increasing order
Ascending(ids) ==
    IF ids = <<>> THEN <<>>
    ELSE LET j == CHOOSE j \in 1..Len(ids) : \A h \in 1..Len(ids) : ids[j] <= ids[h]
         IN  <<ids[j]>> \o Ascending([h \in 1..(Len(ids) - 1) |->
                                         IF h < j THEN ids[h] ELSE ids[h + 1]])

\* the chunks at the ids found, taken in the order of the chunk list
RelevantChunksInStoreOrder(chunks, ids) ==
    [j \in 1..Len(ids) |-> Val(Subscript(chunks, Ascending(ids)[j]))]

\* line 82: [self.chunks[idx] for idx in indices[0]]
RelevantChunks(chunks, ids) ==
    [j \in 1..Len(ids) |-> Val(Subscript(chunks, ids[j]))]

\* lines 82-84: the chunks at the ids found, in that order
lookup(c) ==
    /\ call[c].pc = "lookup"
    /\ LET chunks == Val(Self.chunks)
           ids == call[c].ids
       IN  IF \E j \in 1..Len(ids) : IsNone(Subscript(chunks, ids[j]))
           THEN Raise(c)
           ELSE call' = [call EXCEPT
                            ![c].relevant = RelevantChunks(chunks, ids),
                            ![c].retrieved = TRUE,
                            ![c].pc = "generate"]
    /\ UNCHANGED <<retriever, serving, loop, failed>>
    /\ UNCHANGED pipelineVars

\* lines 97-98: generate_answer checks the LLM alone
generate_answer(c) ==
    /\ call[c].pc = "generate"
    /\ IF IsNone(Self.llm)
       THEN EnterLoad(c, "chain")
       ELSE Goto(c, "chain")
    /\ UNCHANGED <<retriever, serving, loop, failed>>
    /\ UNCHANGED pipelineVars

RECURSIVE JoinTexts(_, _)
\* sep.join(texts)
JoinTexts(texts, sep) ==
    IF texts = <<>> THEN ""
    ELSE IF Len(texts) = 1 THEN texts[1]
    ELSE texts[1] \o sep \o JoinTexts(Tail(texts), sep)

\* line 101: "\n\n".join([chunk["text"] for chunk in relevant_chunks])
Context(relevant_chunks) ==
    JoinTexts([j \in 1..Len(relevant_chunks) |-> relevant_chunks[j].text], "\n\n")

\* lines 101-133: the context, the prompt, and LLMChain(llm = self.llm), which
\* refuses an llm of None
chain(c) ==
    /\ call[c].pc = "chain"
    /\ IF IsNone(Self.llm)
       THEN call' = [call EXCEPT ![c].context = Context(call[c].relevant),
                                 ![c].pc = "raised"]
       ELSE call' = [call EXCEPT ![c].context = Context(call[c].relevant),
                                 ![c].llm = Self.llm, ![c].pc = "run"]
    /\ UNCHANGED <<retriever, serving, loop, failed>>
    /\ UNCHANGED pipelineVars

\* line 136: chain.run calls the model of the chain's llm, which answers or fails
run(c) ==
    /\ call[c].pc = "run"
    /\ \/ call' = [call EXCEPT ![c].answer = Some(Val(call[c].llm).model),
                               ![c].pc = "return"]
       \/ Raise(c)
    /\ UNCHANGED <<retriever, serving, loop, failed>>
    /\ UNCHANGED pipelineVars

process_query(c) ==
    \/ retrieve_relevant_chunks(c)
    \/ search(c)
    \/ lookup(c)
    \/ generate_answer(c)
    \/ chain(c)
    \/ run(c)
    \/ load_resources(c)

(***************************************************************************)
(* The API server (api.py).  Every handler is an `async def` without an    *)
(* await: the event loop runs it from its first line to its response       *)
(* before it runs another.                                                 *)
(***************************************************************************)
\* the handlers as plain `def`s, which the framework runs in a thread pool:
\* a handler starts whatever the others are doing
LoopAvailableThreaded == TRUE

\* the event loop is free to run a handler
LoopAvailable == IsNone(loop)

\* a request takes the first slot that is free
FreeSlot(r) ==
    /\ call[r].pc = "idle"
    /\ \A s \in Requests : s < r => call[s].pc # "idle"

\* the switch without line 86: the model name changes and the LLM stays
switch_model_keeps_llm(r, model) ==
    IF model # r.model_name
    THEN [r EXCEPT !.model_name = model]
    ELSE r

\* lines 84-86: the model of the request replaces another current model
switch_model(r, model) ==
    IF model # r.model_name
    THEN [r EXCEPT !.model_name = model, !.llm = None]
    ELSE r

\* lines 47-53: the startup event creates the retriever and calls load_resources
startup_event ==
    /\ ~serving
    /\ LoopAvailable
    /\ call[Startup].pc = "idle"
    /\ retriever' = Some(NewRetriever("mistral"))
    /\ loop' = Some(Startup)
    /\ call' = [call EXCEPT ![Startup] =
                   [IdleCall EXCEPT !.kind = "startup", !.pc = "load_chunks",
                                    !.ret = "return", !.loads = 1]]
    /\ UNCHANGED <<serving, failed>>
    /\ UNCHANGED pipelineVars

\* lines 54-55: an exception of the startup is printed; the server then serves
startup_return ==
    /\ call[Startup].pc \in {"return", "raised"}
    /\ serving' = TRUE
    /\ loop' = None
    /\ call' = [call EXCEPT ![Startup].pc = "done"]
    /\ UNCHANGED <<retriever, failed>>
    /\ UNCHANGED pipelineVars

\* lines 66-71: GET /health
health_check(r) ==
    /\ serving
    /\ LoopAvailable
    /\ FreeSlot(r)
    /\ loop' = Some(r)
    /\ call' = [call EXCEPT ![r] =
                   [IdleCall EXCEPT !.kind = "health", !.pc = "done",
                                    !.status = IF IsNone(retriever) THEN 503 ELSE 200]]
    /\ UNCHANGED <<retriever, serving, failed>>
    /\ UNCHANGED pipelineVars

\* lines 74-91: POST /query up to the call of process_query
query(r) ==
    /\ serving
    /\ LoopAvailable
    /\ FreeSlot(r)
    /\ loop' = Some(r)
    /\ \E q \in Queries, k \in KValues, m \in Models :
          LET request == [IdleCall EXCEPT !.kind = "query", !.query = q, !.k = k, !.model = m,
                                          !.before = retriever]
          IN  IF IsNone(retriever)
              THEN /\ call' = [call EXCEPT ![r] = [request EXCEPT !.pc = "done", !.status = 503]]
                   /\ UNCHANGED retriever
              ELSE /\ retriever' = Some(switch_model(Self, m))
                   /\ call' = [call EXCEPT ![r] =
                                  [request EXCEPT !.pc = "retrieve",
                                                  !.switched = (switch_model(Self, m) # Self)]]
    /\ UNCHANGED <<serving, failed>>
    /\ UNCHANGED pipelineVars

\* lines 92-97 (and 157-165): the response of process_query is returned, 200
query_return(r) ==
    /\ call[r].kind = "query"
    /\ call[r].pc = "return"
    /\ call' = [call EXCEPT ![r].pc = "done", ![r].status = 200,
                            ![r].num_chunks_retrieved = Some(Len(call[r].relevant))]
    /\ UNCHANGED <<retriever, serving, loop, failed>>
    /\ UNCHANGED pipelineVars

\* lines 98-99: any exception of process_query becomes a 500
query_except(r) ==
    /\ call[r].kind = "query"
    /\ call[r].pc = "raised"
    /\ call' = [call EXCEPT ![r].pc = "done", ![r].status = 500]
    /\ UNCHANGED <<retriever, serving, loop, failed>>
    /\ UNCHANGED pipelineVars

\* the response is sent: the handler is over and the loop runs the next one
send_response(r) ==
    /\ call[r].pc = "done"
    /\ call' = [call EXCEPT ![r] = IdleCall]
    /\ loop' = None
    /\ UNCHANGED <<retriever, serving, failed>>
    /\ UNCHANGED pipelineVars

(***************************************************************************)
(* run_pipeline.py, run_embedding: a new TextProcessor runs load_data,     *)
(* create_chunks, initialize_embedding_model, generate_embeddings and      *)
(* create_faiss_index, and enters save_processed_data.                     *)
(***************************************************************************)
run_embedding ==
    /\ ppc = "idle"
    /\ LET p1 == after_load_data(NewProcessor, dataFile)
           p2 == after_create_chunks(p1, dataFile)
           p3 == after_initialize_embedding_model(p2)
           p4 == after_generate_embeddings(p3, dataFile)
           p5 == after_create_faiss_index(p4, dataFile)
       IN  /\ processor' = p5
           /\ ppc' = IF IsNone(p5.vector_store) THEN "idle" ELSE "open_chunks"
    /\ UNCHANGED <<dataFile, files, builds>>
    /\ UNCHANGED serverVars

(***************************************************************************)
(* Concurrent callers of one IncidentRetriever: each thread calls          *)
(* process_query once.                                                     *)
(***************************************************************************)
thread_call(c) ==
    /\ call[c].pc = "idle"
    /\ \E q \in Queries, k \in KValues :
          call' = [call EXCEPT ![c] =
                      [IdleCall EXCEPT !.kind = "thread", !.query = q, !.k = k,
                                       !.model = Self.model_name, !.pc = "retrieve"]]
    /\ UNCHANGED <<retriever, serving, loop, failed>>
    /\ UNCHANGED pipelineVars

thread_return(c) ==
    /\ call[c].kind = "thread"
    /\ call[c].pc \in {"return", "raised"}
    /\ call' = [call EXCEPT ![c].pc = "done",
                            ![c].status = IF call[c].pc = "return" THEN 200 ELSE 500]
    /\ UNCHANGED <<retriever, serving, loop, failed>>
    /\ UNCHANGED pipelineVars

(***************************************************************************)
(* Specifications.                                                         *)
(***************************************************************************)
InitPipeline ==
    /\ dataFile \in DataSets
    /\ files = [chunks |-> MissingFile, index |-> MissingFile, meta |-> MissingFile]
    /\ processor = NewProcessor
    /\ ppc = "idle"
    /\ builds = {}

InitServer ==
    /\ retriever = None
    /\ serving = FALSE
    /\ loop = None
    /\ failed = FALSE
    /\ call = [c \in Callers |-> IdleCall]

\* the API server, and the embedding pipeline run beside it
Init == InitPipeline /\ InitServer

Next ==
    \/ save_processed_json
    \/ run_embedding
    \/ save_steps
    \/ startup_event
    \/ startup_return
    \/ load_resources(Startup)
    \/ \E r \in Requests :
          \/ health_check(r)
          \/ query(r)
          \/ process_query(r)
          \/ query_return(r)
          \/ query_except(r)
          \/ send_response(r)

Spec == Init /\ [][Next]_vars

\* one TextProcessor, its methods called in any order
NextBuild ==
    \/ save_processed_json
    \/ load_data
    \/ create_chunks
    \/ initialize_embedding_model
    \/ generate_embeddings
    \/ create_faiss_index
    \/ save_processed_data
    \/ save_raised
    \/ save_steps

SpecBuild == Init /\ [][NextBuild]_vars

\* one IncidentRetriever over a saved vector store, called from threads
InitThreads ==
    /\ dataFile \in DataSets
    /\ LET p == after_create_faiss_index(NewProcessor, dataFile)
       IN  /\ processor = p
           /\ files = [chunks |-> FileOf(p.chunks),
                       index |-> FileOf(Val(p.vector_store)),
                       meta |-> FileOf(<<EmbeddingMetadata(p)>>)]
           /\ builds = {<<p.chunks, Val(p.vector_store)>>}
    /\ ppc = "idle"
    /\ retriever = Some(NewRetriever("mistral"))
    /\ serving = FALSE
    /\ loop = None
    /\ failed = FALSE
    /\ call = [c \in Callers |-> IdleCall]

NextThreads ==
    \E c \in Requests :
        \/ thread_call(c)
        \/ process_query(c)
        \/ thread_return(c)

SpecThreads == InitThreads /\ [][NextThreads]_vars

(***************************************************************************)
(* One IncidentRetriever over the vector store one run of the pipeline     *)
(* saved for a corpus, and one caller of process_query.                    *)
(***************************************************************************)
\* the questions put to the retriever
SearchQueries == {"", "flood", "flood in Bejai", "tree fall at Kadri", "landslides in Bantwal taluk"}

\* the numbers of chunks asked for
SearchKValues == {-1, 0, 1, 2, 5}

retrieve_call(c) ==
    /\ call[c].pc = "idle"
    /\ \E q \in SearchQueries, k \in SearchKValues :
          call' = [call EXCEPT ![c] =
                      [IdleCall EXCEPT !.kind = "thread", !.query = q, !.k = k,
                                       !.model = Self.model_name, !.pc = "retrieve",
                                       !.before = retriever]]
    /\ UNCHANGED <<retriever, serving, loop, failed>>
    /\ UNCHANGED pipelineVars

InitRetrieve ==
    /\ dataFile \in Corpora
    /\ LET p == after_create_faiss_index(NewProcessor, dataFile)
       IN  /\ processor = p
           /\ files = [chunks |-> FileOf(p.chunks),
                       index |-> FileOf(Val(p.vector_store)),
                       meta |-> FileOf(<<EmbeddingMetadata(p)>>)]
           /\ builds = {<<p.chunks, Val(p.vector_store)>>}
    /\ ppc = "idle"
    /\ retriever = Some(NewRetriever("mistral"))
    /\ serving = FALSE
    /\ loop = None
    /\ failed = FALSE
    /\ call = [c \in Callers |-> IdleCall]

NextRetrieve ==
    \/ retrieve_call(1)
    \/ process_query(1)
    \/ thread_return(1)

SpecRetrieve == InitRetrieve /\ [][NextRetrieve]_vars

(***************************************************************************)
(* One TextProcessor created with some chunk_size and chunk_overlap, its   *)
(* methods called in any order; the data file stays as it is.              *)
(***************************************************************************)
InitChunk ==
    /\ dataFile \in DataSets
    /\ files = [chunks |-> MissingFile, index |-> MissingFile, meta |-> MissingFile]
    /\ \E cfg \in ChunkConfigs : processor = TextProcessor(cfg[1], cfg[2])
    /\ ppc = "idle"
    /\ builds = {}
    /\ InitServer

NextChunk ==
    \/ load_data
    \/ create_chunks
    \/ initialize_embedding_model
    \/ generate_embeddings
    \/ create_faiss_index

SpecChunk == InitChunk /\ [][NextChunk]_vars

(***************************************************************************)
(* Properties.                                                             *)
(***************************************************************************)
LoadPcs == {"load_chunks", "load_index", "load_embedding", "load_llm"}

\* chunks, index, embedding model and LLM of the retriever are all set
AllLoaded ==
    /\ ~IsNone(retriever)
    /\ ~IsNone(Self.chunks)
    /\ ~IsNone(Self.index)
    /\ Self.embedding_model
    /\ ~IsNone(Self.llm)

RECURSIVE LoadsUpTo(_)
LoadsUpTo(c) == IF c = 0 THEN 0 ELSE call[c].loads + LoadsUpTo(c - 1)

\* the number of times the callers have entered load_resources
TotalLoads == LoadsUpTo(MaxRequests)

\* C1: concurrent first calls on one IncidentRetriever make load_resources
\* execute once in total (while no load has raised), and a caller that is past
\* the check of retrieve_relevant_chunks works on the loaded resources.
C1_LoadExecutesOnce ==
    ~failed =>
        /\ TotalLoads <= 1
        /\ \A c \in Requests :
              call[c].pc \in {"search", "lookup"} =>
                  ~IsNone(Self.chunks) /\ ~IsNone(Self.index) /\ Self.embedding_model

\* C2: a caller that has passed the "is loaded" check of
\* retrieve_relevant_chunks or of generate_answer finds chunks, index, embedding
\* model and LLM all set: no partially loaded retriever is observed.
C2_NoPartialLoad ==
    \A c \in Requests :
        call[c].pc \in {"search", "lookup", "chain", "run"} => AllLoaded

\* the saved chunk list and the saved index agree position by position
FilesAligned ==
    LET chunks == files.chunks.body
        index == files.index.body
    IN  /\ Readable(files.chunks) /\ Readable(files.index) /\ Readable(files.meta)
        /\ Len(chunks) = Len(index)
        /\ files.meta.body[1].num_chunks = Len(chunks)
        /\ \A i \in 1..Len(chunks) : index[i] = EmbedText(chunks[i].text)

\* C3: when save_processed_data has succeeded, after any sequence of
\* TextProcessor operations, the saved chunks and the saved index have the same
\* length (the saved num_chunks) and vector i is the embedding of chunk i.
C3_PositionalInvariant == ppc = "saved" => FilesAligned

\* C4: whenever the retriever runs a search, its chunk list and its index were
\* written together by one save_processed_data.
C4_SameBuild ==
    \A c \in Requests :
        call[c].pc = "search" => <<Val(Self.chunks), Val(Self.index)>> \in builds

\* C5: a query request is answered by the capability of the model it names,
\* also when that model differs from the current one; the LLM the retriever
\* holds is never one created for another model than its model_name.
C5_AnswerByRequestedModel ==
    /\ ~IsNone(retriever) /\ ~IsNone(Self.llm) => Val(Self.llm).model = Self.model_name
    /\ \A r \in Requests :
          call[r].kind = "query" =>
              /\ call[r].pc = "run" => Val(call[r].llm).model = call[r].model
              /\ ~IsNone(call[r].answer) => Val(call[r].answer) = call[r].model

\* a request that named another model than the current one has its answer
C5_Witness ==
    \E r \in Requests :
        /\ call[r].kind = "query" /\ call[r].pc = "done" /\ call[r].status = 200
        /\ call[r].switched
        /\ call[r].model = "llama2"
        /\ call[r].answer = Some("llama2")

\* C6: while a request is in its generation call (from the LLM check passed to
\* the end of chain.run) the retriever's model and LLM are those of this
\* request, and the chain runs on that LLM: no switch of another request
\* comes between.
C6_NoSwitchDuringGeneration ==
    \A r \in Requests :
        call[r].kind = "query" /\ call[r].pc \in {"chain", "run"} =>
            /\ Self.model_name = call[r].model
            /\ Self.llm = Some(Ollama(call[r].model))
            /\ call[r].pc = "run" => call[r].llm = Self.llm

\* a request that switched the model is running its chain on the new LLM
C6_Witness ==
    \E r \in Requests :
        /\ call[r].kind = "query" /\ call[r].pc = "run"
        /\ call[r].switched
        /\ call[r].loads = 1
        /\ call[r].llm = Some(Ollama(call[r].model))

\* C7: once a load_resources of the instance has raised, no request runs
\* load_resources again and every query is answered 503.
C7_FailedIsTerminal ==
    failed =>
        \A r \in Requests :
            /\ call[r].pc \notin LoadPcs
            /\ call[r].kind = "query" /\ call[r].pc = "done" => call[r].status = 503

\* C8: the health endpoint answers healthy exactly when the retriever is
\* loaded (Ready), and 503 otherwise.
C8_HealthReportsReady ==
    \A r \in Requests :
        call[r].kind = "health" /\ call[r].pc = "done" =>
            (call[r].status = 200 <=> AllLoaded)

\* C9: a query request with num_chunks <= 0 runs no index search, and is
\* answered with a client error.
C9_NonPositiveKRejected ==
    \A r \in Requests :
        call[r].kind = "query" /\ call[r].k <= 0 =>
            /\ IsNone(call[r].searched)
            /\ call[r].pc = "done" /\ call[r].loads = 0 => call[r].status \in 400..499

\* C10: a query request with an empty query does no retrieval work (no model
\* switch, no embedding or search, no generation) and is answered with a
\* client error.
C10_EmptyQueryRejected ==
    \A r \in Requests :
        call[r].kind = "query" /\ call[r].query = "" =>
            /\ call[r].pc = "done"
            /\ ~call[r].switched
            /\ IsNone(call[r].searched)
            /\ IsNone(call[r].answer)
            /\ call[r].status \in 400..499

(***************************************************************************)
(* Retrieval on the store of one build (SpecRetrieve).                     *)
(***************************************************************************)
\* the call has run its index search for at least one neighbour
Searched(c) == ~IsNone(call[c].searched) /\ call[c].k >= 1

\* C11: for k >= 1 on a loaded retriever with N chunks, retrieve returns
\* without an error and its result has exactly min(k, N) chunks; with k above
\* N these are N chunks.
C11_ResultHasMinKN ==
    \A c \in Requests :
        Searched(c) /\ call[c].pc # "lookup" =>
            /\ call[c].retrieved
            /\ Len(call[c].relevant) = Min(call[c].k, Len(Val(Self.chunks)))

\* a call with k above the number of chunks got every chunk of the corpus
C11_Witness ==
    \E c \in Requests :
        /\ call[c].retrieved
        /\ call[c].k > Len(Val(Self.chunks))
        /\ Len(call[c].relevant) = Len(Val(Self.chunks))
        /\ Len(Val(Self.chunks)) >= 2

\* the squared Euclidean distance of the query of call c to the vector with
\* this id, by the definition of the distance
SquaredL2(c, id) ==
    LET v == Val(Self.index)[id + 1]
        q == EmbedQuery(call[c].query)
    IN  (v[1] - q[1]) * (v[1] - q[1]) + (v[2] - q[2]) * (v[2] - q[2])

\* id a is nearer to the query of call c than id b, or as near with a smaller id
Nearer(c, a, b) ==
    \/ SquaredL2(c, a) < SquaredL2(c, b)
    \/ SquaredL2(c, a) = SquaredL2(c, b) /\ a < b

FoundReady(r) ==
    /\ ~IsNone(call[r].before)
    /\ ~IsNone(Val(call[r].before).chunks)
    /\ ~IsNone(Val(call[r].before).index)
    /\ Val(call[r].before).embedding_model
    /\ ~IsNone(Val(call[r].before).llm)

\* the response of request r is an error response
ErrorResponse(r) ==
    /\ call[r].kind = "query"
    /\ call[r].pc = "done"
    /\ call[r].status \in 400..599

\* C13: when a query request that found the retriever Ready ends in an error
\* response, the retriever (chunks, index, embedding model, model_name, LLM)
\* is the one the request found.
C13_ErrorKeepsLoadedState ==
    \A r \in Requests :
        ErrorResponse(r) /\ FoundReady(r) => Self = Val(call[r].before)

\* C14: when the retrieval of a query request has succeeded and the request
\* ends without an answer, the response carries the number of chunks retrieved.
C14_ErrorCarriesChunkCount ==
    \A r \in Requests :
        /\ call[r].kind = "query"
        /\ call[r].pc = "done"
        /\ call[r].retrieved
        /\ IsNone(call[r].answer)
        => call[r].num_chunks_retrieved = Some(Len(call[r].relevant))

\* C15: while a query request that found the retriever Ready is served, the
\* retriever's chunk list and index stay the ones the request found, and the
\* request does not read chunks.json or the index file again.
C15_ChunksAndIndexReadOnly ==
    \A r \in Requests :
        call[r].kind = "query" /\ FoundReady(r) =>
            /\ call[r].pc \notin {"load_chunks", "load_index"}
            /\ Self.chunks = Val(call[r].before).chunks
            /\ Self.index = Val(call[r].before).index

\* C16: a TextProcessor configured with chunk_overlap >= chunk_size produces
\* no chunks: its chunk list stays empty whatever is called on it.
C16_OverlapNotBelowSizeRejected ==
    processor.chunk_overlap >= processor.chunk_size => processor.chunks = <<>>

\* the lines of a text, each with the position it starts at
LinesOf(text) ==
    LET ends == {i \in 1..Len(text) : CharAt(text, i) = "\n"} \cup {Len(text) + 1}
        starts == {1} \cup {i + 1 : i \in {j \in ends : j < Len(text)}}
        endOf(a) == CHOOSE b \in ends : b >= a /\ \A h \in ends : h >= a => b <= h
    IN  {<<a, SubSeq(text, a, endOf(a) - 1)>> : a \in starts}

\* the line is the label of table entry n with the value the record has for
\* its field
ValueLine(n, record, line) ==
    LET e == FieldTable[n]
    IN  /\ e.field \in DOMAIN record
        /\ Truthy(record[e.field])
        /\ line = e.label \o ": " \o record[e.field]

\* C17: every line of the text rendered for a record is the labelled value of
\* a field the record has with a value, and the lines are in the order of the
\* field table.
C17_OnlyPresentFieldsRendered ==
    \A i \in 1..Len(processor.chunks) :
        LET record == processor.chunks[i].metadata.record
            lines == LinesOf(processor.chunks[i].text)
        IN  /\ \A l \in lines :
                  \E n \in 1..Len(FieldTable) : ValueLine(n, record, l[2])
            /\ \A l1, l2 \in lines :
                  l1[1] < l2[1] =>
                      \E n1, n2 \in 1..Len(FieldTable) :
                          /\ n1 < n2
                          /\ ValueLine(n1, record, l1[2])
                          /\ ValueLine(n2, record, l2[2])

\* C18: no chunk of the processor is longer than chunk_size, and once
\* create_chunks has produced the chunk list every record of the data is the
\* source of at least one chunk.
C18_ChunksWithinSize ==
    /\ \A i \in 1..Len(processor.chunks) :
          Len(processor.chunks[i].text) <= processor.chunk_size
    /\ processor.chunks # <<>> \/ ~IsNone(processor.embeddings) =>
          \A n \in 1..Len(Val(processor.data)) :
              \E i \in 1..Len(processor.chunks) :
                  processor.chunks[i].metadata.source = n - 1

\* a record longer than chunk_size has been split into several chunks
C18_Witness ==
    /\ processor.chunk_overlap < processor.chunk_size
    /\ \E i, j \in 1..Len(processor.chunks) :
          /\ i < j
          /\ processor.chunks[i].metadata.source = processor.chunks[j].metadata.source
          /\ Len(RenderRecord(processor.chunks[i].metadata.source,
                              processor.chunks[i].metadata.record)) > processor.chunk_size

\* the position in the context at which the text of the j-th chunk starts: the
\* texts before it, each followed by a blank line ("\n\n", two characters)
RECURSIVE ContextOffset(_, _)
ContextOffset(relevant, j) ==
    IF j = 1 THEN 1
    ELSE ContextOffset(relevant, j - 1) + Len(relevant[j - 1].text) + 2

\* C19: the j-th chunk retrieve_relevant_chunks returns is the chunk stored at
\* the j-th id of the search, and the context of the generation is the texts
\* of these chunks in that order with a blank line between two of them.
C19_EvidenceOrderPreserved ==
    \A c \in Requests :
        LET ids == call[c].ids
            relevant == call[c].relevant
            context == call[c].context
            n == Len(relevant)
        IN  /\ call[c].retrieved =>
                /\ n = Len(ids)
                /\ \A j \in 1..n :
                      /\ ids[j] \in 0..(Len(Val(Self.chunks)) - 1)
                      /\ relevant[j] = Val(Self.chunks)[ids[j] + 1]
            /\ call[c].pc \in {"run", "return"} =>
                /\ \A j \in 1..n :
                      SubSeq(context, ContextOffset(relevant, j),
                             ContextOffset(relevant, j) + Len(relevant[j].text) - 1)
                          = relevant[j].text
                /\ \A j \in 1..(n - 1) :
                      SubSeq(context, ContextOffset(relevant, j + 1) - 2,
                             ContextOffset(relevant, j + 1) - 1) = "\n\n"
                /\ Len(context) = IF n = 0 THEN 0
                                  ELSE ContextOffset(relevant, n) + Len(relevant[n].text) - 1

\* a context has been built of chunks the search found out of store order
C19_Witness ==
    \E c \in Requests :
        /\ call[c].pc = "run"
        /\ Len(call[c].ids) >= 2
        /\ call[c].ids[1] > call[c].ids[2]
        /\ call[c].relevant[1].text # call[c].relevant[2].text

\* C20: every id with which retrieve_relevant_chunks reads the chunk list is a
\* position of that list, 0..len(chunks)-1: never the -1 of "no result" and
\* never an id beyond the list.
C20_LookupIdsInRange ==
    \A c \in Requests :
        call[c].pc = "lookup" =>
            \A j \in 1..Len(call[c].ids) :
                call[c].ids[j] \in 0..(Len(Val(Self.chunks)) - 1)

\* none of the three files of the vector store exists
NothingWritten ==
    /\ files.chunks = MissingFile
    /\ files.index = MissingFile
    /\ files.meta = MissingFile

\* C21: while no index has been created on the TextProcessor, a call of
\* save_processed_data raises and none of chunks.json, faiss_index.bin and
\* embedding_metadata.json is written; when save_processed_data has succeeded,
\* the three files hold the chunks, the index and the metadata of the processor.
C21_SaveOnlyCompleteBuild ==
    /\ IsNone(processor.vector_store) =>
          /\ ppc \in {"idle", "raised"}
          /\ NothingWritten
    /\ ppc = "saved" =>
          /\ files.chunks = FileOf(processor.chunks)
          /\ files.index = FileOf(Val(processor.vector_store))
          /\ files.meta = FileOf(<<EmbeddingMetadata(processor)>>)

\* save_processed_data has raised on a processor that has its chunks and its
\* embeddings and no index
C21_Witness ==
    /\ ppc = "raised"
    /\ processor.chunks # <<>>
    /\ ~IsNone(processor.embeddings)
    /\ IsNone(processor.vector_store)
    /\ NothingWritten

====
